---- MODULE Spec2Model ----
(***************************************************************************)
(* AirBoost: the Airtable webhook receiver (POST /webhooks/airtable/refresh*)
(* in src/api/endpoints/webhooks.ts) as a state machine.                   *)
(*                                                                         *)
(* The handler is an async function running on a single-threaded event     *)
(* loop: the code between two awaits runs atomically, and invocations      *)
(* interleave at every await.  Each await is a step boundary here, and the *)
(* three sqliteService calls are steps of their own, taken between the     *)
(* call and the resumption of the handler.                                 *)
(*                                                                         *)
(* Strings are TLA+ strings: \o is concatenation and Len the length, so    *)
(* the signature and the idempotency key are built as the code builds them.*)
(* Time is in milliseconds, as Date.now() gives it.                        *)
(***************************************************************************)
EXTENDS Integers, Sequences, FiniteSets, TLC

VARIABLES
    lastProcessedTime,  \* webhooks.ts:10, module-level rate-limit tracker
    processed,          \* the idempotency ledger of the metadata store (keys)
    webhookConfig,      \* the webhook configuration row: <<>> or <<macSecretBase64>>
    worker,             \* store.worker: TRUE when a Worker is attached
    workerMsgs,         \* messages handed to worker.postMessage, in order
    now,                \* Date.now()
    ticks,              \* number of clock advances so far (bounds the clock)
    inv,                \* the handler invocations, in order of arrival
    auth                \* a request in the bearerAuth middleware (auth.ts)

vars == <<lastProcessedTime, processed, webhookConfig, worker, workerMsgs, now, ticks, inv, auth>>

----------------------------------------------------------------------------
(* Bounds *)

\* number of handler invocations (requests) in a behaviour
MaxRequests == 2
\* number of times the clock advances
MaxTicks == 2

\* Date.now() when the server starts taking requests, ms
StartTime == 10000
\* the clock advances by one of these, ms
TickSteps == {2, 1000}

----------------------------------------------------------------------------
(* Configuration (src/config, read at webhooks.ts:87 and :98), in seconds *)

webhookTimestampWindow == 2
webhookRateLimit == 1

----------------------------------------------------------------------------
(* Optional values: <<>> is undefined/null, <<v>> is the value v *)

Undefined == <<>>
Some(v) == <<v>>
IsDefined(o) == o # <<>>
Get(o) == o[1]

\* `${x}` of a string | undefined
TemplateString(o) == IF IsDefined(o) THEN Get(o) ELSE "undefined"

\* JavaScript truthiness of a string | null | undefined
Truthy(o) == IsDefined(o) /\ Get(o) # ""

NaN == -1

----------------------------------------------------------------------------
(* The inputs: notification envelopes, their raw bytes and signature headers *)

\* ISO timestamps an envelope may carry, with what new Date(s).getTime() gives
TimeFresh == "1970-01-01T00:00:10Z"
TimeStale == "1970-01-01T00:00:05Z"
TimeFuture == "1970-01-01T00:00:20Z"
TimeGarbage == "yesterday"

\* new Date(timestamp).getTime(): NaN for a string that is no date
DateParse(s) ==
    CASE s = TimeFresh -> 10000
      [] s = TimeStale -> 5000
      [] s = TimeFuture -> 20000
      [] OTHER -> NaN

\* An envelope: which of the notification fields it has, and their values
Envelope(hasBase, webhookId, timestamp) ==
    [base |-> hasBase, webhook |-> webhookId, timestamp |-> timestamp]

EnvPing == Envelope(FALSE, Undefined, Undefined)
EnvW1 == Envelope(TRUE, Some("w1"), Some(TimeFresh))
EnvW2 == Envelope(TRUE, Some("w2"), Some(TimeFresh))

Envelopes ==
    { EnvPing,                                          \* {} : the liveness probe
      EnvW1,
      EnvW2,
      Envelope(TRUE, Some("w1"), Some(TimeStale)),
      Envelope(TRUE, Some("w1"), Some(TimeFuture)),
      Envelope(TRUE, Some("w1"), Some(TimeGarbage)),
      Envelope(TRUE, Some("w1"), Some("")),
      Envelope(TRUE, Undefined, Undefined),
      Envelope(TRUE, Some("undefined"), Undefined) }         \* a webhook id that reads "undefined"

RECURSIVE Join(_)
Join(fields) ==
    IF fields = <<>> THEN ""
    ELSE IF Len(fields) = 1 THEN fields[1]
    ELSE fields[1] \o "," \o Join(Tail(fields))

\* The JSON text of an envelope, as the sender serialises it
Serialize(e) ==
    "{" \o Join(
        (IF e.base THEN <<"\"base\":{\"id\":\"b1\"}">> ELSE <<>>)
        \o (IF IsDefined(e.webhook)
            THEN <<"\"webhook\":{\"id\":\"" \o Get(e.webhook) \o "\"}">> ELSE <<>>)
        \o (IF IsDefined(e.timestamp)
            THEN <<"\"timestamp\":\"" \o Get(e.timestamp) \o "\"">> ELSE <<>>)) \o "}"

\* Raw bodies that are not JSON, and JSON that is not an object
BodyNotJson == "{not json"
BodyNull == "null"

RawBodies == {Serialize(e) : e \in Envelopes} \cup {BodyNotJson, BodyNull}

\* What JSON.parse gives for each raw body that is JSON: the value null, or
\* an object with the envelope's fields
ParseTable ==
    [b \in RawBodies \ {BodyNotJson} |->
        IF b = BodyNull THEN [kind |-> "null"]
        ELSE [kind |-> "object", fields |-> CHOOSE e \in Envelopes : Serialize(e) = b]]

\* JSON.parse(rawBody), webhooks.ts:34.  kind "throws" is the SyntaxError.
JSONParse(rawBody) ==
    IF rawBody \in DOMAIN ParseTable THEN ParseTable[rawBody] ELSE [kind |-> "throws"]

\* The shared secrets (macSecretBase64)
Secrets == {"s3cr3t", "0ther"}
Configs == {Undefined} \cup {Some(s) : s \in Secrets}

\* calculateWebhookHmac(macSecretBase64, rawBody): HMAC-SHA256 as a
\* collision-free digest of (secret, body)
calculateWebhookHmac(macSecretBase64, rawBody) ==
    "hmac(" \o macSecretBase64 \o "," \o rawBody \o ")"

SignaturePrefix == "hmac-sha256="
Sign(secret, rawBody) == SignaturePrefix \o calculateWebhookHmac(secret, rawBody)

\* A body other than rawBody, for a signature that is correct for another body
OtherBody(rawBody) ==
    IF rawBody = Serialize(EnvW1) THEN Serialize(EnvW2) ELSE Serialize(EnvW1)

\* The x-airtable-content-mac headers a request may carry.  A body that is
\* not an envelope comes without a header; an envelope comes with the signature
\* that is correct under the first secret; the probe also comes without a
\* header; the first notification also comes without a header, with an empty
\* one, with the signature under the other secret, the signature of another
\* body, the digest without its prefix, and the signature with a byte appended.
SignatureHeaders(rawBody) ==
    IF rawBody \in {BodyNotJson, BodyNull} THEN {Undefined}
    ELSE {Some(Sign("s3cr3t", rawBody))}
         \cup (IF rawBody = Serialize(EnvPing) THEN {Undefined} ELSE {})
         \cup (IF rawBody = Serialize(EnvW1)
               THEN {Undefined,
                     Some(""),
                     Some(Sign("0ther", rawBody)),
                     Some(Sign("s3cr3t", OtherBody(rawBody))),
                     Some(calculateWebhookHmac("s3cr3t", rawBody)),
                     Some(Sign("s3cr3t", rawBody) \o "0")}
               ELSE {})

Requests ==
    UNION { {[rawBody |-> b, signatureHeader |-> sig] : sig \in SignatureHeaders(b)}
            : b \in RawBodies }

----------------------------------------------------------------------------
(* The handler's pure steps *)

\* isPing with the negation lost
isPingNotNegated(body) ==
    body.base \/ IsDefined(body.webhook) \/ IsDefined(body.timestamp)

\* isPing, webhooks.ts:17-19: none of base, webhook, timestamp is a key
isPing(body) ==
    ~(body.base \/ IsDefined(body.webhook) \/ IsDefined(body.timestamp))

\* timingSafeEqual on two buffers of equal length
timingSafeEqual(a, b) == a = b

\* InvalidSignature without the timingSafeEqual call: the length test alone
InvalidSignatureLengthOnly(macSecretBase64, rawBody, signatureHeader) ==
    Len(SignaturePrefix \o calculateWebhookHmac(macSecretBase64, rawBody))
        # Len(signatureHeader)

\* webhooks.ts:66-76: TRUE when the provided header is rejected
InvalidSignature(macSecretBase64, rawBody, signatureHeader) ==
    LET expectedHash == calculateWebhookHmac(macSecretBase64, rawBody)
        expectedSignature == SignaturePrefix \o expectedHash
    IN  \/ Len(expectedSignature) # Len(signatureHeader)
        \/ ~timingSafeEqual(expectedSignature, signatureHeader)

\* webhooks.ts:72-75: the tests the comparison evaluates, in order.  The
\* right operand of || is evaluated only when the left one is false.
SignaturePath(macSecretBase64, rawBody, signatureHeader) ==
    LET expectedSignature == SignaturePrefix \o calculateWebhookHmac(macSecretBase64, rawBody)
    IN  IF Len(expectedSignature) # Len(signatureHeader)
        THEN <<"length">>
        ELSE <<"length", "timingSafeEqual">>

\* webhooks.ts:83-94: TRUE when the timestamp stage rejects at time t
ExpiredTimestamp(timestamp, t) ==
    /\ Truthy(timestamp)
    /\ LET webhookTime == DateParse(Get(timestamp))
           windowMs == webhookTimestampWindow * 1000
           diff == t - webhookTime
           abs == IF diff < 0 THEN -diff ELSE diff
       IN  webhookTime = NaN \/ abs > windowMs

\* webhooks.ts:97-101: TRUE when the rate limiter rejects at time t
RateLimited(last, t) ==
    LET rateLimitMs == webhookRateLimit * 1000
        timeSinceLastProcess == t - last
    IN  last > 0 /\ timeSinceLastProcess < rateLimitMs

\* Math.ceil(n / 1000) for n > 0
CeilDiv1000(n) == (n + 999) \div 1000

\* RetryAfter rounding down instead of up
RetryAfterFloor(last, t) == (webhookRateLimit * 1000 - (t - last)) \div 1000

\* webhooks.ts:102
RetryAfter(last, t) == CeilDiv1000(webhookRateLimit * 1000 - (t - last))

\* webhooks.ts:109-110
IdempotencyKey(body) ==
    LET webhookId == body.webhook
        timestamp == body.timestamp
    IN  TemplateString(webhookId) \o ":" \o TemplateString(timestamp)

----------------------------------------------------------------------------
(* The idempotency ledger of the metadata store (sqliteService) *)

\* sqliteService.isWebhookProcessed(key): the key has a marker
isWebhookProcessed(ledger, key) == key \in ledger

\* sqliteService.markWebhookProcessed(key, ...): the ledger with the key marked
markWebhookProcessed(ledger, key) == ledger \cup {key}

----------------------------------------------------------------------------
(* State *)

Handlers == 1..MaxRequests

\* A response: the HTTP status (set.status, 200 unless set) and the object returned
Response(status, body) == [status |-> status, body |-> body]
NoResponse == Response(0, [pending |-> TRUE])

\* An error thrown out of the handler: the framework answers 500
Unhandled(name) == Response(500, [thrown |-> name])

\* No request is in the bearerAuth middleware
NoAuth == [pc |-> "none"]

\* An invocation that has not arrived yet
Idle ==
    [pc |-> "idle", rawBody |-> "", signatureHeader |-> Undefined,
     webhookConfig |-> Undefined, alreadyProcessed |-> FALSE,
     markedAtArrival |-> FALSE, after |-> {}, response |-> NoResponse]

\* The parsed body of an invocation past JSON.parse
Body(h) == JSONParse(inv[h].rawBody).fields

IsNotification(h) ==
    /\ inv[h].pc # "idle"
    /\ JSONParse(inv[h].rawBody).kind = "object"
    /\ ~isPing(Body(h))

\* The key of the request, known from its bytes
KeyOf(rawBody) ==
    IF JSONParse(rawBody).kind = "object"
    THEN Some(IdempotencyKey(JSONParse(rawBody).fields)) ELSE Undefined

Init ==
    /\ lastProcessedTime = 0
    /\ processed = {}
    /\ webhookConfig \in Configs
    /\ worker \in BOOLEAN
    /\ workerMsgs = <<>>
    /\ now = StartTime
    /\ ticks = 0
    /\ inv = [h \in Handlers |-> Idle]
    /\ auth = NoAuth

Finish(h, response) ==
    inv' = [inv EXCEPT ![h].pc = "done", ![h].response = response]

Goto(h, pc) == inv' = [inv EXCEPT ![h].pc = pc]

----------------------------------------------------------------------------
(* The handler, one action per stretch of code between two awaits *)

\* A request arrives and the handler is invoked; it suspends at
\* await request.text() (webhooks.ts:29).  Invocations are numbered in
\* order of arrival.  markedAtArrival and after record, for the properties,
\* whether the request's key was in the ledger when it arrived and which
\* invocations had returned by then.
Receive(h, req) ==
    /\ inv[h].pc = "idle"
    /\ \A g \in Handlers : g < h => inv[g].pc # "idle"
    /\ inv' = [inv EXCEPT ![h] =
                [Idle EXCEPT !.pc = "text",
                             !.rawBody = req.rawBody,
                             !.signatureHeader = req.signatureHeader,
                             !.markedAtArrival =
                                 /\ IsDefined(KeyOf(req.rawBody))
                                 /\ Get(KeyOf(req.rawBody)) \in processed,
                             !.after = {g \in Handlers : inv[g].pc = "done"}]]
    /\ UNCHANGED <<lastProcessedTime, processed, webhookConfig, worker, workerMsgs, now, ticks, auth>>

\* webhooks.ts:29-57: parse, ping detection, presence of the signature header
ParseAndDetectPing(h) ==
    /\ inv[h].pc = "text"
    /\ LET parsed == JSONParse(inv[h].rawBody) IN
        IF parsed.kind = "throws"
        THEN Finish(h, Response(400, [error |-> "Invalid JSON payload", backend |-> "sqlite"]))
        ELSE IF parsed.kind = "null"
        THEN Finish(h, Unhandled("TypeError"))    \* "base" in null
        ELSE IF isPing(parsed.fields)
        THEN Finish(h, Response(200, [status |-> "success"]))
        ELSE IF ~Truthy(inv[h].signatureHeader)
        THEN Finish(h, Response(401, [error |-> "Missing signature header", backend |-> "sqlite"]))
        ELSE Goto(h, "getWebhookConfig")
    /\ UNCHANGED <<lastProcessedTime, processed, webhookConfig, worker, workerMsgs, now, ticks, auth>>

\* sqliteService.getWebhookConfig(), called at webhooks.ts:58
CallGetWebhookConfig(h) ==
    /\ inv[h].pc = "getWebhookConfig"
    /\ inv' = [inv EXCEPT ![h].pc = "verify", ![h].webhookConfig = webhookConfig]
    /\ UNCHANGED <<lastProcessedTime, processed, webhookConfig, worker, workerMsgs, now, ticks, auth>>

\* VerifyStages answering a missing configuration as a signature mismatch
VerifyStagesConfigAsSignature(config, rawBody, signatureHeader, last, t) ==
    IF ~IsDefined(config) \/ InvalidSignature(Get(config), rawBody, Get(signatureHeader))
    THEN Response(401, [error |-> "Invalid signature", backend |-> "sqlite"])
    ELSE IF ExpiredTimestamp(JSONParse(rawBody).fields.timestamp, t)
    THEN Response(401, [error |-> "Expired timestamp", backend |-> "sqlite"])
    ELSE IF RateLimited(last, t)
    THEN Response(429, [error |-> "Rate limit exceeded", retryAfter |-> RetryAfter(last, t)])
    ELSE NoResponse

\* webhooks.ts:60-106: the response of the first stage that rejects among
\* configuration, signature, timestamp and rate limit; NoResponse when all pass
VerifyStages(config, rawBody, signatureHeader, last, t) ==
    IF ~IsDefined(config)
    THEN Response(500, [error |-> "Webhook not configured", backend |-> "sqlite"])
    ELSE IF InvalidSignature(Get(config), rawBody, Get(signatureHeader))
    THEN Response(401, [error |-> "Invalid signature", backend |-> "sqlite"])
    ELSE IF ExpiredTimestamp(JSONParse(rawBody).fields.timestamp, t)
    THEN Response(401, [error |-> "Expired timestamp", backend |-> "sqlite"])
    ELSE IF RateLimited(last, t)
    THEN Response(429, [error |-> "Rate limit exceeded", retryAfter |-> RetryAfter(last, t)])
    ELSE NoResponse

\* Verify that also records a rate-limited request as the last one seen
VerifyExtendingWindow(h) ==
    /\ inv[h].pc = "verify"
    /\ LET r == VerifyStages(inv[h].webhookConfig, inv[h].rawBody, inv[h].signatureHeader,
                             lastProcessedTime, now)
       IN  /\ IF r = NoResponse THEN Goto(h, "isWebhookProcessed") ELSE Finish(h, r)
           /\ lastProcessedTime' = IF r.status = 429 THEN now ELSE lastProcessedTime
    /\ UNCHANGED <<processed, webhookConfig, worker, workerMsgs, now, ticks, auth>>

\* webhooks.ts:60-112: configuration, signature, timestamp, rate limit, then
\* the key and the call of isWebhookProcessed
Verify(h) ==
    /\ inv[h].pc = "verify"
    /\ LET r == VerifyStages(inv[h].webhookConfig, inv[h].rawBody, inv[h].signatureHeader,
                             lastProcessedTime, now)
       IN  IF r = NoResponse THEN Goto(h, "isWebhookProcessed") ELSE Finish(h, r)
    /\ UNCHANGED <<lastProcessedTime, processed, webhookConfig, worker, workerMsgs, now, ticks, auth>>

\* sqliteService.isWebhookProcessed(idempotencyKey), called at webhooks.ts:112
CallIsWebhookProcessed(h) ==
    /\ inv[h].pc = "isWebhookProcessed"
    /\ inv' = [inv EXCEPT ![h].pc = "forward",
                          ![h].alreadyProcessed =
                              isWebhookProcessed(processed, IdempotencyKey(Body(h)))]
    /\ UNCHANGED <<lastProcessedTime, processed, webhookConfig, worker, workerMsgs, now, ticks, auth>>

\* Forward without the test of the worker
ForwardWithoutWorkerCheck(h) ==
    /\ inv[h].pc = "forward"
    /\ IF inv[h].alreadyProcessed
       THEN /\ Finish(h, Response(200, [status |-> "skipped", reason |-> "Already processed"]))
            /\ UNCHANGED lastProcessedTime
       ELSE /\ lastProcessedTime' = now
            /\ Goto(h, "markWebhookProcessed")
    /\ UNCHANGED <<processed, webhookConfig, worker, workerMsgs, now, ticks, auth>>

\* Forward without the test of alreadyProcessed
ForwardIgnoringLedger(h) ==
    /\ inv[h].pc = "forward"
    /\ IF ~worker
       THEN /\ Finish(h, Response(503, [error |-> "Worker service unavailable",
                                        backend |-> "sqlite"]))
            /\ UNCHANGED lastProcessedTime
       ELSE /\ lastProcessedTime' = now
            /\ Goto(h, "markWebhookProcessed")
    /\ UNCHANGED <<processed, webhookConfig, worker, workerMsgs, now, ticks, auth>>

\* webhooks.ts:113-131: skip a duplicate, check the worker, update the rate
\* limit tracker, call markWebhookProcessed
Forward(h) ==
    /\ inv[h].pc = "forward"
    /\ IF inv[h].alreadyProcessed
       THEN /\ Finish(h, Response(200, [status |-> "skipped", reason |-> "Already processed"]))
            /\ UNCHANGED lastProcessedTime
       ELSE IF ~worker
       THEN /\ Finish(h, Response(503, [error |-> "Worker service unavailable",
                                        backend |-> "sqlite"]))
            /\ UNCHANGED lastProcessedTime
       ELSE /\ lastProcessedTime' = now
            /\ Goto(h, "markWebhookProcessed")
    /\ UNCHANGED <<processed, webhookConfig, worker, workerMsgs, now, ticks, auth>>

\* The handler going on to postMessage with the marker not written
CallMarkWebhookProcessedLost(h) ==
    /\ inv[h].pc = "markWebhookProcessed"
    /\ Goto(h, "postMessage")
    /\ UNCHANGED <<lastProcessedTime, processed, webhookConfig, worker, workerMsgs, now, ticks, auth>>

\* sqliteService.markWebhookProcessed(idempotencyKey, ...), called at webhooks.ts:131
CallMarkWebhookProcessed(h) ==
    /\ inv[h].pc = "markWebhookProcessed"
    /\ processed' = markWebhookProcessed(processed, IdempotencyKey(Body(h)))
    /\ Goto(h, "postMessage")
    /\ UNCHANGED <<lastProcessedTime, webhookConfig, worker, workerMsgs, now, ticks, auth>>

\* webhooks.ts:137-146: hand the payload to the worker captured at line 119
PostMessage(h) ==
    /\ inv[h].pc = "postMessage"
    /\ workerMsgs' = Append(workerMsgs, [type |-> "WEBHOOK_RECEIVED", payload |-> Body(h)])
    /\ Finish(h, Response(200, [status |-> "success"]))
    /\ UNCHANGED <<lastProcessedTime, processed, webhookConfig, worker, now, ticks, auth>>

\* A sqliteService call rejects (the database is locked, the disk is full):
\* the error leaves the handler, which has no try around these calls
SqliteThrows(h) ==
    /\ inv[h].pc \in {"getWebhookConfig", "isWebhookProcessed", "markWebhookProcessed"}
    /\ Finish(h, Unhandled("SQLiteError"))
    /\ UNCHANGED <<lastProcessedTime, processed, webhookConfig, worker, workerMsgs, now, ticks, auth>>

----------------------------------------------------------------------------
(* The environment *)

\* Time passes
Tick(d) ==
    /\ ticks < MaxTicks
    /\ now' = now + d
    /\ ticks' = ticks + 1
    /\ UNCHANGED <<lastProcessedTime, processed, webhookConfig, worker, workerMsgs, inv, auth>>

\* The webhook configuration is created, rotated or removed in the metadata DB
SetWebhookConfig(c) ==
    /\ c # webhookConfig
    /\ webhookConfig' = c
    /\ UNCHANGED <<lastProcessedTime, processed, worker, workerMsgs, now, ticks, inv, auth>>

\* The worker is attached to the store, or detached from it
SetWorker(w) ==
    /\ w # worker
    /\ worker' = w
    /\ UNCHANGED <<lastProcessedTime, processed, webhookConfig, workerMsgs, now, ticks, inv, auth>>

Next ==
    \/ \E h \in Handlers, req \in Requests : Receive(h, req)
    \/ \E h \in Handlers : ParseAndDetectPing(h)
    \/ \E h \in Handlers : CallGetWebhookConfig(h)
    \/ \E h \in Handlers : Verify(h)
    \/ \E h \in Handlers : CallIsWebhookProcessed(h)
    \/ \E h \in Handlers : Forward(h)
    \/ \E h \in Handlers : CallMarkWebhookProcessed(h)
    \/ \E h \in Handlers : PostMessage(h)
    \/ \E h \in Handlers : SqliteThrows(h)
    \/ \E d \in TickSteps : Tick(d)
    \/ \E c \in Configs : SetWebhookConfig(c)
    \/ \E w \in BOOLEAN : SetWorker(w)

Spec == Init /\ [][Next]_vars

----------------------------------------------------------------------------
(* bearerAuth: src/api/middleware/auth.ts, and its earlier version, which  *)
(* tests the lengths before it compares.  Both are run on the same request.*)

\* longest configured token, in characters; a bearer may be one longer
MaxTokenLen == 2

\* the characters of tokens, as code points: NUL, "a", "e" with acute accent
Characters == {0, 97, 233}

\* the strings of at most n characters
Strings(n) == UNION {[1..k -> Characters] : k \in 0..n}

\* config.bearerToken: loadConfig() guarantees it is not empty
BearerTokens == Strings(MaxTokenLen) \ {<<>>}

\* the bearer extracted from the Authorization header: undefined or a string
Bearers == {Undefined} \cup {Some(s) : s \in Strings(MaxTokenLen + 1)}

\* the UTF-8 bytes of a character below U+0800
UTF8(c) == IF c < 128 THEN <<c>> ELSE <<192 + (c \div 64), 128 + (c % 64)>>

\* new TextEncoder().encode(s), auth.ts:35-36
RECURSIVE TextEncode(_)
TextEncode(s) == IF Len(s) = 0 THEN <<>> ELSE UTF8(s[1]) \o TextEncode(Tail(s))

\* Buffer.from(s), the same bytes
BufferFrom(s) == TextEncode(s)

\* new Uint8Array(maxLen) with bytes set at its start, auth.ts:39-42
Padded(bytes, maxLen) == bytes \o [i \in 1..(maxLen - Len(bytes)) |-> 0]

Max(a, b) == IF a >= b THEN a ELSE b

Anonymous == [user |-> "anonymous"]
Authenticated == [user |-> "authenticated"]
\* set.status = 401; throw new Error("Unauthorized")
Unauthorized == [status |-> 401, thrown |-> "Unauthorized"]
NoOutcome == [pending |-> TRUE]

\* RejectsPadded without the test of the original lengths
RejectsPaddedCompareOnly(expectedBytes, providedBytes, paddedExpected, paddedProvided) ==
    ~timingSafeEqual(paddedExpected, paddedProvided)

\* auth.ts:45-51: TRUE when the request is rejected after the comparison
RejectsPadded(expectedBytes, providedBytes, paddedExpected, paddedProvided) ==
    LET isValid == timingSafeEqual(paddedExpected, paddedProvided)
    IN  Len(expectedBytes) # Len(providedBytes) \/ ~isValid

\* a request in the middleware: the configuration, the bearer, the locals and
\* outcome of auth.ts, and under earlier those of the earlier version
AuthRequest(authDisabled, bearerToken, bearer) ==
    [pc |-> "start", authDisabled |-> authDisabled, bearerToken |-> bearerToken,
     bearer |-> bearer,
     expectedBytes |-> <<>>, providedBytes |-> <<>>,
     paddedExpected |-> <<>>, paddedProvided |-> <<>>,
     result |-> NoOutcome,
     earlier |-> [pc |-> "start", expectedBuffer |-> <<>>, providedBuffer |-> <<>>,
                  result |-> NoOutcome]]

AuthInit ==
    /\ lastProcessedTime = 0
    /\ processed = {}
    /\ webhookConfig = Undefined
    /\ worker = FALSE
    /\ workerMsgs = <<>>
    /\ now = StartTime
    /\ ticks = 0
    /\ inv = [h \in Handlers |-> Idle]
    /\ auth \in {AuthRequest(d, tok, b) : d \in BOOLEAN, tok \in BearerTokens, b \in Bearers}

\* !bearer is false: the bearer is a string that is not empty
Present(bearer) == IsDefined(bearer) /\ Len(Get(bearer)) > 0

\* auth.ts:19-44: up to await import("node:crypto")
Derive ==
    /\ auth.pc = "start"
    /\ IF auth.authDisabled
       THEN auth' = [auth EXCEPT !.pc = "done", !.result = Anonymous]
       ELSE IF ~Present(auth.bearer)
       THEN auth' = [auth EXCEPT !.pc = "done", !.result = Unauthorized]
       ELSE LET expectedBytes == TextEncode(auth.bearerToken)
                providedBytes == TextEncode(Get(auth.bearer))
                maxLen == Max(Len(expectedBytes), Len(providedBytes))
            IN  auth' = [auth EXCEPT !.pc = "import",
                                     !.expectedBytes = expectedBytes,
                                     !.providedBytes = providedBytes,
                                     !.paddedExpected = Padded(expectedBytes, maxLen),
                                     !.paddedProvided = Padded(providedBytes, maxLen)]
    /\ UNCHANGED <<lastProcessedTime, processed, webhookConfig, worker, workerMsgs, now, ticks, inv>>

\* auth.ts:45-58
Compare ==
    /\ auth.pc = "import"
    /\ auth' = [auth EXCEPT !.pc = "done",
                            !.result =
                                IF RejectsPadded(auth.expectedBytes, auth.providedBytes,
                                                 auth.paddedExpected, auth.paddedProvided)
                                THEN Unauthorized ELSE Authenticated]
    /\ UNCHANGED <<lastProcessedTime, processed, webhookConfig, worker, workerMsgs, now, ticks, inv>>

\* the earlier version (part_002:19-43): up to await import("node:crypto")
EarlierDerive ==
    /\ auth.earlier.pc = "start"
    /\ IF auth.authDisabled
       THEN auth' = [auth EXCEPT !.earlier.pc = "done", !.earlier.result = Anonymous]
       ELSE IF ~Present(auth.bearer)
       THEN auth' = [auth EXCEPT !.earlier.pc = "done", !.earlier.result = Unauthorized]
       ELSE LET expectedBuffer == BufferFrom(auth.bearerToken)
                providedBuffer == BufferFrom(Get(auth.bearer))
            IN  IF Len(expectedBuffer) # Len(providedBuffer)
                THEN auth' = [auth EXCEPT !.earlier.pc = "done",
                                          !.earlier.result = Unauthorized]
                ELSE auth' = [auth EXCEPT !.earlier.pc = "import",
                                          !.earlier.expectedBuffer = expectedBuffer,
                                          !.earlier.providedBuffer = providedBuffer]
    /\ UNCHANGED <<lastProcessedTime, processed, webhookConfig, worker, workerMsgs, now, ticks, inv>>

\* the earlier version (part_002:44-56)
EarlierCompare ==
    /\ auth.earlier.pc = "import"
    /\ LET isValid == timingSafeEqual(auth.earlier.expectedBuffer, auth.earlier.providedBuffer)
       IN  auth' = [auth EXCEPT !.earlier.pc = "done",
                                !.earlier.result =
                                    IF ~isValid THEN Unauthorized ELSE Authenticated]
    /\ UNCHANGED <<lastProcessedTime, processed, webhookConfig, worker, workerMsgs, now, ticks, inv>>

AuthNext ==
    \/ Derive
    \/ Compare
    \/ EarlierDerive
    \/ EarlierCompare

SpecAuth == AuthInit /\ [][AuthNext]_vars

----------------------------------------------------------------------------
(* Vocabulary of the properties *)

\* the pipeline's shared state: the rate-limit tracker, the ledger, the worker's inbox
shared == <<lastProcessedTime, processed, workerMsgs>>

\* invocation h takes a step
Moved(h) == inv'[h] # inv[h]

\* invocation h posts to the worker in this step
Posts(h) == Moved(h) /\ workerMsgs' # workerMsgs

Success == Response(200, [status |-> "success"])
Skipped == Response(200, [status |-> "skipped", reason |-> "Already processed"])

rateLimitMs == webhookRateLimit * 1000

\* the keys of the messages handed to the worker, in order
PostedKeys == [i \in 1..Len(workerMsgs) |-> IdempotencyKey(workerMsgs[i].payload)]

----------------------------------------------------------------------------
(* C1 *)

\* C1: at most one WEBHOOK_RECEIVED message is posted to the worker per
\* idempotency key, under any interleaving of handler invocations.
C1_AtMostOneMessagePerKey ==
    \A i, j \in 1..Len(workerMsgs) : PostedKeys[i] = PostedKeys[j] => i = j

----------------------------------------------------------------------------
(* C2 *)

\* C2: the rate limiter admits at most one notification per rate-limit
\* interval: accepted notifications are at least webhookRateLimit apart, so
\* by the time n messages have been posted, n - 1 intervals have passed since
\* the first request can have arrived.
C2_AtMostOnePerInterval ==
    Len(workerMsgs) >= 2 => now - StartTime >= (Len(workerMsgs) - 1) * rateLimitMs

----------------------------------------------------------------------------
(* C3 *)

Done(h) == inv[h].pc = "done"

\* the request of h is a parsed envelope with at least one notification field
NonProbe(h) ==
    /\ inv[h].pc # "idle"
    /\ inv[h].rawBody \in DOMAIN ParseTable
    /\ ParseTable[inv[h].rawBody].kind = "object"
    /\ LET e == ParseTable[inv[h].rawBody].fields
       IN  e.base \/ e.webhook # Undefined \/ e.timestamp # Undefined

\* the header of h is "hmac-sha256=" + HMAC(secret h fetched, raw body of h)
SignatureMatches(h) ==
    /\ inv[h].signatureHeader # Undefined
    /\ inv[h].webhookConfig # Undefined
    /\ inv[h].signatureHeader[1] =
         "hmac-sha256=" \o calculateWebhookHmac(inv[h].webhookConfig[1], inv[h].rawBody)

MissingHeader401 == Response(401, [error |-> "Missing signature header", backend |-> "sqlite"])
InvalidSignature401 == Response(401, [error |-> "Invalid signature", backend |-> "sqlite"])
ExpiredTimestamp401 == Response(401, [error |-> "Expired timestamp", backend |-> "sqlite"])

\* h is past the signature stage
PastSignature(h) ==
    \/ inv[h].pc \in {"isWebhookProcessed", "forward", "markWebhookProcessed", "postMessage"}
    \/ /\ Done(h)
       /\ \/ inv[h].response \in {Success, Skipped, ExpiredTimestamp401}
          \/ inv[h].response.status \in {429, 503}

\* C3: a non-probe notification gets past the signature stage (and so to the
\* worker) only if its header equals "hmac-sha256=" + HMAC(secret, raw body);
\* without a header it is answered 401, with a header that is the signature
\* of another body or under another secret it is answered 401, and with the
\* correct signature it is not rejected by the signature stage.
C3_SignatureGate ==
    \A h \in Handlers : NonProbe(h) =>
        /\ PastSignature(h) => SignatureMatches(h)
        /\ (Done(h) /\ inv[h].signatureHeader \in {Undefined, Some("")})
              => inv[h].response = MissingHeader401
        /\ (Done(h) /\ inv[h].signatureHeader \notin {Undefined, Some("")}
                    /\ inv[h].webhookConfig # Undefined /\ ~SignatureMatches(h))
              => inv[h].response = InvalidSignature401
        /\ (Done(h) /\ SignatureMatches(h))
              => inv[h].response \notin {MissingHeader401, InvalidSignature401}

\* one notification with the exact signature was forwarded, and one signed
\* for another body was answered 401
C3_Witness ==
    \E h, g \in Handlers :
        /\ NonProbe(h) /\ Done(h) /\ SignatureMatches(h) /\ inv[h].response = Success
        /\ NonProbe(g) /\ Done(g) /\ inv[g].response = InvalidSignature401
        /\ inv[g].signatureHeader =
             Some("hmac-sha256=" \o calculateWebhookHmac(inv[g].webhookConfig[1],
                                                         OtherBody(inv[g].rawBody)))

----------------------------------------------------------------------------
(* C4 *)

\* the request of h is a parsed envelope with none of base, webhook, timestamp
Probe(h) ==
    /\ inv[h].pc # "idle"
    /\ inv[h].rawBody \in DOMAIN ParseTable
    /\ ParseTable[inv[h].rawBody].kind = "object"
    /\ LET e == ParseTable[inv[h].rawBody].fields
       IN  ~e.base /\ e.webhook = Undefined /\ e.timestamp = Undefined

\* C4: an envelope with none of the fields base, webhook, timestamp is
\* answered success whatever its signature header and whether or not a secret
\* is configured; its invocation never fetches the configuration, never
\* changes lastProcessedTime or the ledger, and never posts to the worker.
C4_ProbeAcknowledged ==
    [][\A h \in Handlers :
        (Probe(h)' /\ Moved(h)) =>
            /\ UNCHANGED shared
            /\ inv'[h].webhookConfig = Undefined
            /\ inv'[h].pc \in {"text", "done"}
            /\ inv'[h].pc = "done" => inv'[h].response = Success]_vars

\* a probe without a header was answered success while no secret was
\* configured, and one with a header too
C4_Witness ==
    /\ webhookConfig = Undefined
    /\ \E h, g \in Handlers :
        /\ Probe(h) /\ Done(h) /\ inv[h].signatureHeader = Undefined
        /\ inv[h].response = Success
        /\ Probe(g) /\ Done(g) /\ inv[g].signatureHeader # Undefined
        /\ inv[g].response = Success
        /\ shared = <<0, {}, <<>> >>

----------------------------------------------------------------------------
(* C5 *)

\* C5: an invocation that arrives when the marker of its key is already in
\* the ledger never posts to the worker, and the pipeline never removes a
\* marker from the ledger.
C5_MarkedNeverReprocessed ==
    [][/\ processed \subseteq processed'
       /\ \A h \in Handlers : inv'[h].markedAtArrival => ~Posts(h)]_vars

\* a notification that arrived after its key was marked got past the
\* signature, timestamp and rate-limit stages and was answered "skipped"
C5_Witness ==
    \E h \in Handlers :
        /\ inv[h].markedAtArrival
        /\ Done(h)
        /\ inv[h].response = Skipped
        /\ Len(workerMsgs) = 1

----------------------------------------------------------------------------
(* C6 *)

\* the timestamp field of the request of h, Undefined when it has none
TimestampOf(h) == ParseTable[inv[h].rawBody].fields.timestamp

Abs(n) == IF n < 0 THEN -n ELSE n

\* the timestamp s parses and lies within the window of time t
FreshAt(s, t) ==
    /\ DateParse(s) # NaN
    /\ Abs(t - DateParse(s)) <= webhookTimestampWindow * 1000

\* C6: a notification that carries a timestamp which does not parse or lies
\* outside the window is answered 401 by the stages at webhooks.ts:60-106
\* (before rate limit, idempotency and forward), and a notification that
\* carries a timestamp and is posted to the worker has a parseable one.
C6_FreshTimestampOnly ==
    [][\A h \in Handlers :
        /\ (/\ inv[h].pc = "verify" /\ Moved(h)
            /\ SignatureMatches(h)
            /\ TimestampOf(h) # Undefined
            /\ ~FreshAt(TimestampOf(h)[1], now))
              => inv'[h].response = ExpiredTimestamp401
        /\ (Posts(h) /\ TimestampOf(h) # Undefined)
              => DateParse(TimestampOf(h)[1]) # NaN]_vars

----------------------------------------------------------------------------
(* C7 *)

NotConfigured500 == Response(500, [error |-> "Webhook not configured", backend |-> "sqlite"])
InvalidJson400 == Response(400, [error |-> "Invalid JSON payload", backend |-> "sqlite"])

\* the five rejection kinds of the pipeline: malformed input, unauthorized,
\* rate limited, already processed, configuration missing
IsRejection(r) ==
    \/ r \in {InvalidJson400, MissingHeader401, InvalidSignature401, ExpiredTimestamp401,
              Skipped, NotConfigured500}
    \/ r.status = 429

\* h has updated the rate-limit tracker and is on its way to the worker
Accepting(h) == inv[h].pc \in {"markWebhookProcessed", "postMessage"}

\* C7: the step that ends a request in a rejection changes neither
\* lastProcessedTime nor the ledger nor the worker's inbox, and the invocation
\* has changed none of them before: an invocation changes them only when it
\* accepts the notification, and an accepting invocation never ends in a
\* rejection.
C7_RejectionsChangeNothing ==
    [][\A h \in Handlers : Moved(h) =>
        /\ (inv'[h].pc = "done" /\ IsRejection(inv'[h].response))
              => (UNCHANGED shared /\ ~Accepting(h))
        /\ (shared' # shared)
              => (Accepting(h)' \/ (Accepting(h) /\ inv'[h].response = Success))]_vars

\* a request was rate limited after another was accepted, and the tracker
\* still holds the time of the accepted one
C7_Witness ==
    \E h \in Handlers :
        /\ Done(h) /\ inv[h].response.status = 429
        /\ lastProcessedTime = StartTime
        /\ now > StartTime
        /\ Len(workerMsgs) = 1

----------------------------------------------------------------------------
(* C8 *)

\* g was forwarded and had returned when h arrived with the same body (the
\* same webhook identifier and timestamp) and a signature that matches; no
\* other invocation carries their key; h returned other than by a thrown error
Duplicate(g, h) ==
    /\ g \in inv[h].after
    /\ NonProbe(g) /\ inv[g].response = Success
    /\ ParseTable[inv[g].rawBody].fields.webhook # Undefined
    /\ ParseTable[inv[g].rawBody].fields.timestamp # Undefined
    /\ inv[h].rawBody = inv[g].rawBody
    /\ SignatureMatches(h)
    /\ Done(h) /\ inv[h].response.status # 500
    /\ \A k \in Handlers \ {g, h} : KeyOf(inv[k].rawBody) # KeyOf(inv[h].rawBody)

MessagesWithKey(key) == {i \in 1..Len(workerMsgs) : PostedKeys[i] = key}

\* C8 as stated: of two validly signed notifications with the same webhook
\* identifier and timestamp handled one after the other, the first is
\* forwarded, the second is answered "skipped", and the worker receives
\* exactly one message.
C8_SecondIsSkipped ==
    \A g, h \in Handlers : Duplicate(g, h) =>
        /\ inv[h].response = Skipped
        /\ Cardinality(MessagesWithKey(KeyOf(inv[h].rawBody)[1])) = 1

\* C8 amended: the second is not forwarded and the worker receives exactly
\* one message; the second is answered 429 when its rate-limit check runs
\* less than webhookRateLimit after the last accepted notification, 401 when
\* its timestamp has left the window, and "skipped" only when it gets past
\* the rate limiter to the idempotency stage.
C8_SecondNotForwarded ==
    [][\A g, h \in Handlers : (Duplicate(g, h)' /\ Moved(h)) =>
        /\ Cardinality(MessagesWithKey(KeyOf(inv[h].rawBody)[1])') = 1
        /\ inv[h].pc \in {"verify", "forward"}
        /\ inv[h].pc = "forward" => inv'[h].response = Skipped
        /\ inv[h].pc = "verify" =>
             IF TimestampOf(h) \notin {Undefined, Some("")} /\ ~FreshAt(TimestampOf(h)[1], now)
             THEN inv'[h].response = ExpiredTimestamp401
             ELSE /\ now - lastProcessedTime < rateLimitMs
                  /\ inv'[h].response.status = 429]_vars

\* the second of two such notifications, 2 ms after the first, was answered 429
C8_Witness ==
    \E g, h \in Handlers :
        /\ Duplicate(g, h)
        /\ inv[h].response.status = 429
        /\ now = StartTime + 2
        /\ Len(workerMsgs) = 1

----------------------------------------------------------------------------
(* C9 *)

\* the message worker.postMessage is given for h
MessageOf(h) == [type |-> "WEBHOOK_RECEIVED", payload |-> ParseTable[inv[h].rawBody].fields]

\* C9: a message is posted only by an invocation that passed parse, probe
\* detection, signature, freshness, rate limit and idempotency in this order;
\* when it posts, the marker of its key is already in the ledger, it posts
\* exactly one message and returns success; and a notification is answered
\* success only by posting.
C9_ForwardAfterAllStages ==
    [][/\ workerMsgs' # workerMsgs => \E h \in Handlers : Posts(h)
       /\ \A h \in Handlers : Moved(h) =>
            /\ inv'[h].pc = "isWebhookProcessed" =>
                 /\ inv[h].pc = "verify"
                 /\ NonProbe(h) /\ SignatureMatches(h)
                 /\ ~ExpiredTimestamp(TimestampOf(h), now)
                 /\ ~(lastProcessedTime > 0 /\ now - lastProcessedTime < rateLimitMs)
            /\ inv'[h].pc = "forward" =>
                 /\ inv[h].pc = "isWebhookProcessed"
                 /\ inv'[h].alreadyProcessed = (KeyOf(inv[h].rawBody)[1] \in processed)
            /\ inv'[h].pc = "markWebhookProcessed" =>
                 /\ inv[h].pc = "forward"
                 /\ ~inv[h].alreadyProcessed
            /\ inv'[h].pc = "postMessage" =>
                 /\ inv[h].pc = "markWebhookProcessed"
                 /\ KeyOf(inv[h].rawBody)[1] \in processed'
            /\ Posts(h) =>
                 /\ inv[h].pc = "postMessage"
                 /\ KeyOf(inv[h].rawBody)[1] \in processed
                 /\ workerMsgs' = Append(workerMsgs, MessageOf(h))
                 /\ inv'[h].pc = "done"
                 /\ inv'[h].response = Success
            /\ (NonProbe(h) /\ inv'[h].pc = "done" /\ inv'[h].response = Success)
                 => Posts(h)]_vars

\* an accepted notification: marked, posted once, answered success
C9_Witness ==
    \E h \in Handlers :
        /\ NonProbe(h) /\ Done(h) /\ inv[h].response = Success
        /\ KeyOf(inv[h].rawBody)[1] \in processed
        /\ workerMsgs = <<MessageOf(h)>>

----------------------------------------------------------------------------
(* C10 *)

Unavailable503 == Response(503, [error |-> "Worker service unavailable", backend |-> "sqlite"])

\* C10: when no worker is attached at the moment a notification has passed
\* all validation stages, it is answered 503, and its invocation has written
\* no marker, has not updated lastProcessedTime and has posted nothing: an
\* invocation changes these only from the worker check on, and only with a
\* worker attached at that check.
C10_WorkerUnavailable ==
    [][\A h \in Handlers : Moved(h) =>
        /\ (inv[h].pc = "forward" /\ ~inv[h].alreadyProcessed /\ ~worker)
              => (inv'[h].pc = "done" /\ inv'[h].response = Unavailable503
                  /\ UNCHANGED shared)
        /\ inv'[h].response = Unavailable503 => (inv[h].pc = "forward" /\ ~worker)
        /\ (shared' # shared)
              => (inv[h].pc \in {"forward", "markWebhookProcessed", "postMessage"}
                  /\ (inv[h].pc = "forward" => worker))]_vars

\* a notification was answered 503 and left no trace; sent again once the
\* worker was attached, it was forwarded
C10_Witness ==
    \E g, h \in Handlers :
        /\ g \in inv[h].after
        /\ inv[g].response = Unavailable503
        /\ inv[h].rawBody = inv[g].rawBody
        /\ inv[h].signatureHeader = inv[g].signatureHeader
        /\ Done(h) /\ inv[h].response = Success
        /\ workerMsgs = <<MessageOf(h)>>

----------------------------------------------------------------------------
(* C11 *)

\* C11 as stated: while the metadata store holds no webhook configuration,
\* every non-probe notification that is answered, with or without a signature
\* header, is answered 500 "Webhook not configured" and changes nothing.
C11_AllSurfacedAs500 ==
    [][\A h \in Handlers :
        (/\ Moved(h) /\ NonProbe(h)'
         /\ inv[h].pc \in {"text", "verify"} /\ inv'[h].pc = "done"
         /\ webhookConfig = Undefined /\ inv[h].webhookConfig = Undefined)
            => (inv'[h].response = NotConfigured500 /\ UNCHANGED shared)]_vars

\* C11 amended: the handler fetches the configuration the store holds; a
\* non-probe notification whose fetch gave no configuration is answered 500
\* "Webhook not configured" by a step that changes nothing, and 500 "Webhook
\* not configured" is given for no other reason; no invocation gets past that
\* stage (to the ledger, the tracker or the worker) without a configuration;
\* and a notification without a signature header is answered 401 "Missing
\* signature header" before the configuration is fetched, whether or not one
\* is stored.
C11_FailsClosed ==
    [][\A h \in Handlers : (Moved(h) /\ NonProbe(h)') =>
        /\ (inv[h].pc = "getWebhookConfig" /\ inv'[h].pc = "verify")
              => inv'[h].webhookConfig = webhookConfig
        /\ (inv[h].pc = "verify" /\ inv[h].webhookConfig = Undefined)
              => (inv'[h].pc = "done" /\ inv'[h].response = NotConfigured500
                  /\ UNCHANGED shared)
        /\ inv'[h].response = NotConfigured500
              => (inv[h].pc = "verify" /\ inv[h].webhookConfig = Undefined)
        /\ inv'[h].pc \in {"isWebhookProcessed", "forward", "markWebhookProcessed", "postMessage"}
              => inv'[h].webhookConfig # Undefined
        /\ (shared' # shared) => inv[h].webhookConfig # Undefined
        /\ (inv[h].pc = "text" /\ inv[h].signatureHeader \in {Undefined, Some("")})
              => (inv'[h].pc = "done" /\ inv'[h].response = MissingHeader401
                  /\ inv'[h].webhookConfig = Undefined /\ UNCHANGED shared)]_vars

\* with no configuration stored, a correctly signed notification was answered
\* 500 and one without a header 401, and nothing was marked or forwarded
C11_Witness ==
    /\ webhookConfig = Undefined
    /\ shared = <<0, {}, <<>> >>
    /\ \E g, h \in Handlers :
        /\ NonProbe(h) /\ Done(h) /\ inv[h].response = NotConfigured500
        /\ inv[h].signatureHeader = Some(Sign("s3cr3t", inv[h].rawBody))
        /\ NonProbe(g) /\ Done(g) /\ inv[g].response = MissingHeader401
        /\ inv[g].signatureHeader = Undefined

----------------------------------------------------------------------------
(* C12 *)

\* C12: a raw body that does not parse as a notification envelope (text that
\* is not JSON, or JSON that is not an object, such as null) is answered 400
\* "Invalid JSON payload" by the step that parses it, which runs no further
\* stage and changes nothing; the handler throws no error on such a body.
C12_MalformedAnswered400 ==
    [][\A h \in Handlers :
        (Moved(h) /\ inv[h].pc = "text" /\ JSONParse(inv[h].rawBody).kind # "object")
            => /\ inv'[h].pc = "done"
               /\ inv'[h].response = InvalidJson400
               /\ UNCHANGED shared]_vars

----------------------------------------------------------------------------
(* C13 *)

\* h has run the signature comparison: it has a header, fetched a secret and
\* is past the stages of webhooks.ts:60-106
Compared(h) ==
    /\ NonProbe(h)
    /\ inv[h].webhookConfig # Undefined
    /\ inv[h].pc \in {"isWebhookProcessed", "forward", "markWebhookProcessed",
                      "postMessage", "done"}

\* the tests the signature comparison of h evaluated
PathOf(h) ==
    SignaturePath(inv[h].webhookConfig[1], inv[h].rawBody, inv[h].signatureHeader[1])

\* C13: every signature comparison runs timingSafeEqual, whether or not the
\* provided and the expected signature have the same length.
C13_ConstantTimePathAlways ==
    \A h \in Handlers :
        Compared(h) => \E i \in 1..Len(PathOf(h)) : PathOf(h)[i] = "timingSafeEqual"

----------------------------------------------------------------------------
(* C14 *)

\* h is at the stages of webhooks.ts:60-106 with a configuration, a matching
\* signature and a timestamp that is absent, empty or fresh: the rate limiter
\* decides its step
AtRateLimiter(h) ==
    /\ Moved(h) /\ inv[h].pc = "verify"
    /\ SignatureMatches(h)
    /\ \/ TimestampOf(h) \in {Undefined, Some("")}
       \/ FreshAt(TimestampOf(h)[1], now)

\* C14 as stated: a valid notification whose rate-limit check runs t ms after
\* the last accepted one, 0 <= t < rateLimitMs, is answered 429 with
\* retryAfter = rateLimitMs - t (998 for t = 2), and one checked while no
\* notification has been accepted is not rate limited.
C14_RetryAfterIsRemainingMs ==
    [][\A h \in Handlers : AtRateLimiter(h) =>
        LET t == now - lastProcessedTime IN
        /\ (lastProcessedTime > 0 /\ 0 <= t /\ t < rateLimitMs)
              => /\ inv'[h].response.status = 429
                 /\ inv'[h].response.body.retryAfter = rateLimitMs - t
        /\ lastProcessedTime = 0 => inv'[h].pc = "isWebhookProcessed"]_vars

\* C14 amended: such a notification is answered 429 "Rate limit exceeded"
\* with retryAfter the remaining time rounded up to whole seconds (the least
\* s with s * 1000 >= rateLimitMs - t, 1 for t = 2), by a step that changes
\* nothing; once t >= rateLimitMs, or while lastProcessedTime is 0, it is not
\* rate limited.
C14_RetryAfterIsRemainingSeconds ==
    [][\A h \in Handlers : AtRateLimiter(h) =>
        LET t == now - lastProcessedTime IN
        /\ (lastProcessedTime > 0 /\ 0 <= t /\ t < rateLimitMs)
              => /\ inv'[h].pc = "done"
                 /\ inv'[h].response.status = 429
                 /\ inv'[h].response.body.error = "Rate limit exceeded"
                 /\ LET s == inv'[h].response.body.retryAfter
                    IN  s * 1000 >= rateLimitMs - t /\ (s - 1) * 1000 < rateLimitMs - t
                 /\ UNCHANGED shared
        /\ (lastProcessedTime = 0 \/ t >= rateLimitMs)
              => inv'[h].pc = "isWebhookProcessed"]_vars

\* 2 ms after a notification was accepted, another valid one was answered
\* 429 with retryAfter 1
C14_Witness ==
    \E g, h \in Handlers :
        /\ NonProbe(g) /\ Done(g) /\ inv[g].response = Success
        /\ lastProcessedTime = StartTime
        /\ now = StartTime + 2
        /\ NonProbe(h) /\ Done(h) /\ SignatureMatches(h)
        /\ inv[h].response =
             Response(429, [error |-> "Rate limit exceeded", retryAfter |-> 1])

----------------------------------------------------------------------------
(* C15 *)

\* C15: messages are handed to the worker in the order in which their
\* notifications arrived: of two forwarded notifications with different
\* payloads, the message of the one that arrived first comes first.
C15_ArrivalOrderPreserved ==
    \A g, h \in Handlers :
        (/\ g < h
         /\ NonProbe(g) /\ Done(g) /\ inv[g].response = Success
         /\ NonProbe(h) /\ Done(h) /\ inv[h].response = Success
         /\ MessageOf(g) # MessageOf(h))
            => \E i, j \in 1..Len(workerMsgs) :
                 /\ i < j
                 /\ workerMsgs[i] = MessageOf(g)
                 /\ workerMsgs[j] = MessageOf(h)

----------------------------------------------------------------------------
(* C16 *)

\* the handler of h returned an object (it did not throw)
Returned(h) == Done(h) /\ "thrown" \notin DOMAIN inv[h].response.body

\* C16: every object the handler returns, on every path, has the field
\* backend with the value "sqlite".
C16_EveryResponseNamesBackend ==
    \A h \in Handlers : Returned(h) =>
        /\ "backend" \in DOMAIN inv[h].response.body
        /\ inv[h].response.body.backend = "sqlite"

----------------------------------------------------------------------------
(* C17 *)

\* C17: with authentication not disabled, bearerAuth derives "authenticated"
\* if and only if a bearer is present and equal to the configured token, and
\* otherwise throws 401 Unauthorized (so for the token followed by a zero
\* byte); it derives "anonymous" if and only if authentication is disabled.
\* The earlier version does the same.
C17_AuthenticatedIffEqual ==
    /\ auth.pc = "done" =>
         /\ auth.result = Anonymous <=> auth.authDisabled
         /\ auth.result = Authenticated <=>
              (~auth.authDisabled /\ auth.bearer = Some(auth.bearerToken))
         /\ auth.result \in {Anonymous, Authenticated, Unauthorized}
    /\ auth.earlier.pc = "done" =>
         /\ auth.earlier.result = Anonymous <=> auth.authDisabled
         /\ auth.earlier.result = Authenticated <=>
              (~auth.authDisabled /\ auth.bearer = Some(auth.bearerToken))
         /\ auth.earlier.result \in {Anonymous, Authenticated, Unauthorized}

\* the configured token followed by a zero byte went through the padded
\* comparison, which found the padded arrays equal, and was rejected
C17_Witness ==
    /\ auth.pc = "done"
    /\ ~auth.authDisabled
    /\ auth.bearer = Some(auth.bearerToken \o <<0>>)
    /\ auth.paddedExpected = auth.paddedProvided
    /\ auth.result = Unauthorized

----------------------------------------------------------------------------
(* C20 *)

\* C20: for every configuration and every bearer, auth.ts and its earlier
\* version give the same outcome: anonymous, authenticated, or 401.
C20_VersionsAgree ==
    (auth.pc = "done" /\ auth.earlier.pc = "done") => auth.result = auth.earlier.result

\* both versions finished on a bearer of the token's length that differs in
\* a byte, and on one that is equal
C20_Witness ==
    /\ auth.pc = "done" /\ auth.earlier.pc = "done"
    /\ ~auth.authDisabled
    /\ Present(auth.bearer)
    /\ Len(auth.expectedBytes) = Len(auth.providedBytes)
    /\ auth.result = auth.earlier.result
    /\ auth.result = Unauthorized

----------------------------------------------------------------------------
(* C18 *)

\* the (webhook identifier, timestamp) pair of the notification of h
PairOf(h) ==
    <<ParseTable[inv[h].rawBody].fields.webhook, ParseTable[inv[h].rawBody].fields.timestamp>>

\* C18: two notifications have the same idempotency key only if they have
\* the same webhook identifier and the same timestamp (absent fields
\* included), so a notification answered "skipped" shares its key only with
\* notifications of its own identifier and timestamp.
C18_SkippedOnlyForSamePair ==
    \A h \in Handlers : (NonProbe(h) /\ Done(h) /\ inv[h].response = Skipped) =>
        \A g \in Handlers :
            (NonProbe(g) /\ KeyOf(inv[g].rawBody) = KeyOf(inv[h].rawBody))
                => PairOf(g) = PairOf(h)

----------------------------------------------------------------------------
(* C19 *)

\* C19: lastProcessedTime never decreases and is advanced only by a step of
\* an invocation; an invocation that has advanced it goes on to write its
\* marker and then to post its message, and ends in no other way.
C19_TrackerOnlyByForwarded ==
    [][/\ lastProcessedTime' >= lastProcessedTime
       /\ lastProcessedTime' # lastProcessedTime
             => \E h \in Handlers : Moved(h) /\ inv'[h].pc = "markWebhookProcessed"
       /\ \A h \in Handlers : Moved(h) =>
            /\ inv[h].pc = "markWebhookProcessed"
                 => (inv'[h].pc = "postMessage" /\ KeyOf(inv[h].rawBody)[1] \in processed')
            /\ inv[h].pc = "postMessage"
                 => (Posts(h) /\ inv'[h].response = Success)]_vars

====
